---- MODULE Spec2Model ----
(***************************************************************************)
(* Model of the microphone keyword listener (src/src/keyword_listener.py): *)
(* the capture -> silence gate -> transcription (remote, local, fallback)  *)
(* -> keyword match -> cooldown -> notification loop of main(), and the    *)
(* pure text functions normalize_text and contains_keyword.                *)
(*                                                                         *)
(* Strings are sequences of one-character strings, so that substring       *)
(* tests, trimming and case folding are computed, not assumed.             *)
(***************************************************************************)
EXTENDS Integers, Sequences, FiniteSets, TLC

VARIABLES
    env,             \* the process environment read at import (os.getenv), immutable
    pc,              \* position of main(): start, the loop's steps, handler, stopped, fatal
    audio,           \* the buffer returned by record_buffer, alive until the silence gate
    err_msg,         \* str(e) of the exception caught from transcribe_with_whisper
    text,            \* the transcription of the cycle in progress
    now,             \* main's local now, the reading of time.time() at line 168
    last_detect_ts,  \* main's local last_detect_ts
    detected,        \* a detection has been accepted in this run (history)
    cycle,           \* the calls made so far by the cycle in progress, in order
    notified,        \* the detection times of the calls of send_via_api, in order
    prev_err,        \* the exception that ended the previous cycle ("none" if none did)
    stopped_at,      \* the position at which KeyboardInterrupt was raised ("none" before)
    matched,         \* result of contains_keyword in the matcher specification
    normalized,            \* result of normalize_text in the matcher specification
    sent,            \* the arguments of the call of send_via_api made by the cycle, if any
    whisper_model,   \* WhisperModel objects built in this run: "none", "one", "many"
    api              \* the /send endpoint of src/src/api.py handling one request

vars == <<env, pc, audio, err_msg, text, now, last_detect_ts, detected, cycle,
          notified, prev_err, stopped_at, matched, normalized, sent, whisper_model, api>>

(***************************************************************************)
(* Characters and strings                                                  *)
(***************************************************************************)
LowerLetters ==
    {"a","b","c","d","e","f","g","h","i","j","k","l","m","n","o","p","q","r",
     "s","t","u","v","w","x","y","z"}

Lower ==
    ("A" :> "a") @@ ("B" :> "b") @@ ("C" :> "c") @@ ("D" :> "d") @@ ("E" :> "e")
    @@ ("F" :> "f") @@ ("G" :> "g") @@ ("H" :> "h") @@ ("I" :> "i") @@ ("J" :> "j")
    @@ ("K" :> "k") @@ ("L" :> "l") @@ ("M" :> "m") @@ ("N" :> "n") @@ ("O" :> "o")
    @@ ("P" :> "p") @@ ("Q" :> "q") @@ ("R" :> "r") @@ ("S" :> "s") @@ ("T" :> "t")
    @@ ("U" :> "u") @@ ("V" :> "v") @@ ("W" :> "w") @@ ("X" :> "x") @@ ("Y" :> "y")
    @@ ("Z" :> "z")

UpperLetters == DOMAIN Lower

Digits == {"0","1","2","3","4","5","6","7","8","9"}

\* Python's \s on the characters of the model
IsSpace(c) == c \in {" ", "\t", "\n"}

\* Python's \w: alphanumeric or underscore
IsWord(c) == c \in LowerLetters \cup UpperLetters \cup Digits \cup {"_"}

\* str.casefold on one character: upper case to lower case, everything else kept
CasefoldChar(c) == IF c \in UpperLetters THEN Lower[c] ELSE c

\* str.casefold
casefold(s) == [i \in 1..Len(s) |-> CasefoldChar(s[i])]

\* str.lstrip / str.rstrip / str.strip with no argument
RECURSIVE lstrip(_)
lstrip(s) == IF s # <<>> /\ IsSpace(Head(s)) THEN lstrip(Tail(s)) ELSE s

RECURSIVE rstrip(_)
rstrip(s) ==
    IF s # <<>> /\ IsSpace(s[Len(s)]) THEN rstrip(SubSeq(s, 1, Len(s) - 1)) ELSE s

strip(s) == rstrip(lstrip(s))

\* Python's `sub in s` on strings
Contains(sub, s) ==
    \E i \in 0..(Len(s) - Len(sub)) : SubSeq(s, i + 1, i + Len(sub)) = sub

\* re.sub(r"[^\w\s]", " ", s)
SubPunct(s) == [i \in 1..Len(s) |-> IF IsWord(s[i]) \/ IsSpace(s[i]) THEN s[i] ELSE " "]

\* re.sub(r"\s+", " ", s): every maximal run of whitespace becomes one space
RECURSIVE CollapseSpaces(_)
CollapseSpaces(s) ==
    IF s = <<>> THEN <<>>
    ELSE IF IsSpace(Head(s))
         THEN <<" ">> \o CollapseSpaces(lstrip(Tail(s)))
         ELSE <<Head(s)>> \o CollapseSpaces(Tail(s))

\* the two substitutions in the other order
normalize_text_swapped(s) == strip(SubPunct(CollapseSpaces(casefold(s))))

\* lines 91-95
normalize_text(s) == strip(CollapseSpaces(SubPunct(casefold(s))))

\* for kw in keywords: if kw and kw.casefold() in norm: return True; return False
RECURSIVE KeywordLoop(_, _)
KeywordLoop(norm, keywords) ==
    IF keywords = <<>> THEN FALSE
    ELSE IF Head(keywords) # <<>> /\ Contains(casefold(Head(keywords)), norm)
         THEN TRUE
         ELSE KeywordLoop(norm, Tail(keywords))

contains_keyword(t, keywords) == KeywordLoop(normalize_text(t), keywords)

\* str.split(","): the pieces between the commas, in order (one piece for "")
RECURSIVE SplitComma(_, _)
SplitComma(s, acc) ==
    IF s = <<>> THEN <<acc>>
    ELSE IF Head(s) = "," THEN <<acc>> \o SplitComma(Tail(s), <<>>)
         ELSE SplitComma(Tail(s), Append(acc, Head(s)))

RECURSIVE StripNonEmpty(_)
StripNonEmpty(pieces) ==
    IF pieces = <<>> THEN <<>>
    ELSE IF strip(Head(pieces)) # <<>>
         THEN <<strip(Head(pieces))>> \o StripNonEmpty(Tail(pieces))
         ELSE StripNonEmpty(Tail(pieces))

\* the pieces kept as they are: no strip, no filter
ParseKeywordsNoStrip(raw) == SplitComma(raw, <<>>)

\* [k.strip() for k in os.getenv("KEYWORDS", ...).split(",") if k.strip()]
ParseKeywords(raw) == StripNonEmpty(SplitComma(raw, <<>>))

(***************************************************************************)
(* Configuration (module level, lines 19-38)                               *)
(***************************************************************************)
\* An environment variable is a sequence of zero (unset) or one value.
\* os.getenv(name, default)
Getenv(name, default) == IF env[name] = <<>> THEN default ELSE env[name][1]

\* None and "" are both falsy and the code tests truthiness only: both are <<>>
None == <<>>

SentinelMessage ==
    <<"K","e","y","w","o","r","d"," ","d","e","t","e","c","t","e","d"," ","f","r",
      "o","m"," ","m","i","c","r","o","p","h","o","n","e">>

DefaultKeywordsEnv ==
    <<"c","h","i","c","k","e","n"," ","n","u","g","g","e","t",",","c","h","i","c",
      "k","e","n"," ","n","u","g","g","e","t","s">>

OPENAI_API_KEY == Getenv("OPENAI_API_KEY", None)

API_TOKEN == Getenv("API_TOKEN", None)

TO_NUMBER == Getenv("TO_NUMBER", None)

DEFAULT_MESSAGE == Getenv("MESSAGE", SentinelMessage)

KEYWORDS == ParseKeywords(Getenv("KEYWORDS", DefaultKeywordsEnv))

USE_LOCAL_STT == Getenv("USE_LOCAL_STT", <<"0">>) \in {<<"1">>, <<"t","r","u","e">>, <<"T","r","u","e">>}

\* DETECTION_COOLDOWN_SECONDS, default "15"
COOLDOWN_SECONDS == 15

\* SILENCE_THRESHOLD in the unit of the samples below (default "0.001": one
\* unit is a sample amplitude of 0.001)
SILENCE_THRESHOLD == 1

\* client = OpenAI(api_key=OPENAI_API_KEY) if OPENAI_API_KEY else None
client == IF OPENAI_API_KEY # None THEN "OpenAI" ELSE "None"

(***************************************************************************)
(* Bounds and input sets                                                   *)
(***************************************************************************)
\* frames per buffer (int(seconds * SAMPLE_RATE) in the code)
Frames == 2

\* largest sample amplitude, in units of 0.001
MaxAmp == 2

\* longest text enumerated for the matcher
MaxTextLen == 4

\* largest clock reading, in seconds
MaxClock == 36

Samples == (0 - MaxAmp)..MaxAmp

Buffers == [1..Frames -> Samples]

\* The values time.time() returns to the loop: any order, so the clock may
\* also step backwards between two cycles.
ClockReadings == {0, 1, 5, 14, 15, 16, 20, 21} \cup 30..MaxClock

\* What the speech service or the local model returns before .strip()
RawTranscripts ==
    { <<>>,
      <<" ">>,
      <<"h","e","l","l","o">>,
      <<"I"," ","l","i","k","e"," ","c","h","i","c","k","e","n"," ","n","u","g",
        "g","e","t","s">>,
      <<"C","h","i","c","k","e","n"," ","N","U","G","G","E","T","!","!"," ">> }

\* str(e) of the exceptions transcribe_with_whisper raises, as sequences of
\* tokens: digits, the two error codes, and other words.
ErrMessages ==
    { <<"E","r","r","o","r"," ","4","0","1">>,
      <<"4","0","3"," ","F","o","r","b","i","d","d","e","n">>,
      <<"c","o","d","e",":"," ","insufficient_quota">>,
      <<"model_not_found">>,
      <<"t","i","m","e","o","u","t">>,
      <<"E","r","r","o","r"," ","5","0","0">>,
      <<"4","0","0">>,
      <<"t","i","m","e","d"," ","o","u","t"," ","a","f","t","e","r"," ","4","0","1","0","m","s">>,
      <<>> }

\* the message of the RuntimeError raised at line 54, which holds no error code
NoKeyMessage == <<"OPENAI_API_KEY"," ","n","o","t"," ","s","e","t">>

\* falls back on every failure of the remote call
IsServiceUnavailableAlways(msg) == TRUE

\* any(code in err_msg for code in ("model_not_found", "insufficient_quota", "401", "403"))
FallbackCodes ==
    { <<"model_not_found">>, <<"insufficient_quota">>, <<"4","0","1">>, <<"4","0","3">> }

IsServiceUnavailable(msg) == \E code \in FallbackCodes : Contains(code, msg)

\* sum of the squares of the samples: np.square then the sum behind np.mean
RECURSIVE SumSquares(_)
SumSquares(a) == IF a = <<>> THEN 0 ELSE Head(a) * Head(a) + SumSquares(Tail(a))

\* the gate with <= in place of <
RmsBelowOrEqual(a, threshold) == SumSquares(a) <= threshold * threshold * Len(a)

\* _rms(audio) < threshold, for threshold >= 0: sqrt(mean(x^2)) < t iff
\* sum(x^2) < t^2 * n, which keeps the comparison in the integers
RmsBelow(a, threshold) == SumSquares(a) < threshold * threshold * Len(a)

(***************************************************************************)
(* main(): startup and the listener loop (lines 119-186)                   *)
(***************************************************************************)
\* the positions inside the try block of the loop
LoopSteps ==
    {"capture", "gate", "transcribe", "except_remote", "fallback", "check_text",
     "match", "debounce", "cooldown", "notify"}

EnvNames == {"API_TOKEN", "TO_NUMBER", "OPENAI_API_KEY", "USE_LOCAL_STT", "MESSAGE", "KEYWORDS"}

\* The environments of the listener runs: every combination of the required
\* settings present or missing, both transcription modes, both kinds of
\* message template, the default keywords.
Environments ==
    { e \in [EnvNames -> {<<>>, <<<<"x">>>>, <<<<"1">>>>, <<<<"h","i">>>>}] :
        /\ e["API_TOKEN"] \in {<<>>, <<<<"x">>>>}
        /\ e["TO_NUMBER"] \in {<<>>, <<<<"x">>>>}
        /\ e["OPENAI_API_KEY"] \in {<<>>, <<<<"x">>>>}
        /\ e["USE_LOCAL_STT"] \in {<<>>, <<<<"1">>>>}
        /\ e["MESSAGE"] \in {<<>>, <<<<"h","i">>>>}
        /\ e["KEYWORDS"] = <<>> }

Init ==
    /\ env \in Environments
    /\ pc = "start"
    /\ audio = <<>>
    /\ err_msg = <<>>
    /\ text = <<>>
    /\ now = 0
    /\ last_detect_ts = 0
    /\ detected = FALSE
    /\ cycle = <<>>
    /\ notified = <<>>
    /\ prev_err = "none"
    /\ stopped_at = "none"
    /\ matched = FALSE
    /\ normalized = <<>>
    /\ sent = <<>>
    /\ whisper_model = "none"
    /\ api = <<>>

\* the check of OPENAI_API_KEY left out of the startup
StartupNoKeyCheck ==
    /\ pc = "start"
    /\ pc' = IF API_TOKEN = None \/ TO_NUMBER = None THEN "fatal" ELSE "capture"
    /\ last_detect_ts' = 0
    /\ UNCHANGED <<env, normalized, sent, whisper_model, api, now, detected, audio, err_msg, text, cycle, notified, prev_err, stopped_at, matched>>

\* lines 120-132: the three checks, then last_detect_ts = 0.0 and the loop
Startup ==
    /\ pc = "start"
    /\ pc' = IF API_TOKEN = None \/ TO_NUMBER = None \/ OPENAI_API_KEY = None
             THEN "fatal" ELSE "capture"
    /\ last_detect_ts' = 0
    /\ UNCHANGED <<env, normalized, sent, whisper_model, api, now, detected, audio, err_msg, text, cycle, notified, prev_err, stopped_at, matched>>

\* the cycle ends (continue, or the end of the loop body): back to the top
NextCycle(e) ==
    /\ pc' = "capture"
    /\ prev_err' = e
    /\ audio' = <<>>
    /\ err_msg' = <<>>
    /\ text' = <<>>
    /\ now' = 0

\* line 136, record_buffer returns a buffer
CaptureOk ==
    /\ pc = "capture"
    /\ \E a \in Buffers : audio' = a
    /\ cycle' = <<"record_buffer">>
    /\ pc' = "gate"
    /\ sent' = <<>>
    /\ UNCHANGED <<env, normalized, whisper_model, api, err_msg, text, now, last_detect_ts, detected, notified, prev_err, stopped_at, matched>>

\* the device error leaves the loop
CaptureFailEscapes ==
    /\ pc = "capture"
    /\ cycle' = <<"record_buffer">>
    /\ pc' = "stopped"
    /\ prev_err' = "DeviceError"
    /\ sent' = <<>>
    /\ UNCHANGED <<env, normalized, whisper_model, api, audio, err_msg, text, now, last_detect_ts, detected, notified, stopped_at, matched>>

\* line 136, record_buffer raises (device unavailable): caught at line 184
CaptureFail ==
    /\ pc = "capture"
    /\ cycle' = <<"record_buffer">>
    /\ pc' = "handler"
    /\ prev_err' = "DeviceError"
    /\ sent' = <<>>
    /\ UNCHANGED <<env, normalized, whisper_model, api, audio, err_msg, text, now, last_detect_ts, detected, notified, stopped_at, matched>>

\* lines 138-139: skip near-silence
Gate ==
    /\ pc = "gate"
    /\ cycle' = Append(cycle, "_rms")
    /\ IF RmsBelow(audio, SILENCE_THRESHOLD)
       THEN NextCycle("none")
       ELSE /\ pc' = "transcribe"
            /\ UNCHANGED <<audio, err_msg, text, now, prev_err>>
    /\ UNCHANGED <<env, normalized, sent, whisper_model, api, last_detect_ts, detected, notified, stopped_at, matched>>

\* line 83: model = WhisperModel(LOCAL_STT_MODEL, compute_type="int8"), run by
\* every call of transcribe_with_faster_whisper that gets that far
LoadModel(m) == IF m = "none" THEN "one" ELSE "many"

\* line 143, local mode: transcribe_with_faster_whisper returns
LocalOk ==
    /\ pc = "transcribe"
    /\ USE_LOCAL_STT
    /\ \E raw \in RawTranscripts : text' = strip(raw)
    /\ cycle' = Append(cycle, "transcribe_with_faster_whisper")
    /\ pc' = "check_text"
    /\ audio' = <<>>
    /\ whisper_model' = LoadModel(whisper_model)
    /\ UNCHANGED <<env, normalized, sent, api, err_msg, now, last_detect_ts, detected, notified, prev_err, stopped_at, matched>>

\* line 143, local mode: transcribe_with_faster_whisper raises: caught at line 184
LocalFail ==
    /\ pc = "transcribe"
    /\ USE_LOCAL_STT
    /\ cycle' = Append(cycle, "transcribe_with_faster_whisper")
    /\ pc' = "handler"
    /\ prev_err' = "LocalSTTError"
    /\ audio' = <<>>
    /\ \E built \in BOOLEAN :
         whisper_model' = IF built THEN LoadModel(whisper_model) ELSE whisper_model
    /\ UNCHANGED <<env, normalized, sent, api, err_msg, text, now, last_detect_ts, detected, notified, stopped_at, matched>>

\* the remote call made whatever the mode
RemoteOkAnyMode ==
    /\ pc = "transcribe"
    /\ client # "None"
    /\ \E raw \in RawTranscripts : text' = strip(raw)
    /\ cycle' = Append(cycle, "transcribe_with_whisper")
    /\ pc' = "check_text"
    /\ audio' = <<>>
    /\ UNCHANGED <<env, normalized, sent, whisper_model, api, err_msg, now, last_detect_ts, detected, notified, prev_err, stopped_at, matched>>

\* the local transcriber kept in use once a fallback has happened
RemoteOkSticky ==
    /\ pc = "transcribe"
    /\ ~USE_LOCAL_STT
    /\ client # "None"
    /\ \E raw \in RawTranscripts : text' = strip(raw)
    /\ cycle' = Append(cycle, IF whisper_model = "none"
                              THEN "transcribe_with_whisper"
                              ELSE "transcribe_with_faster_whisper")
    /\ pc' = "check_text"
    /\ audio' = <<>>
    /\ UNCHANGED <<env, normalized, sent, whisper_model, api, err_msg, now, last_detect_ts, detected, notified, prev_err, stopped_at, matched>>

\* line 146: transcribe_with_whisper returns resp.text.strip()
RemoteOk ==
    /\ pc = "transcribe"
    /\ ~USE_LOCAL_STT
    /\ client # "None"
    /\ \E raw \in RawTranscripts : text' = strip(raw)
    /\ cycle' = Append(cycle, "transcribe_with_whisper")
    /\ pc' = "check_text"
    /\ audio' = <<>>
    /\ UNCHANGED <<env, normalized, sent, whisper_model, api, err_msg, now, last_detect_ts, detected, notified, prev_err, stopped_at, matched>>

\* lines 146-149: transcribe_with_whisper raises, err_msg = str(e)
RemoteFail ==
    /\ pc = "transcribe"
    /\ ~USE_LOCAL_STT
    /\ \E m \in (IF client = "None" THEN {NoKeyMessage} ELSE ErrMessages) : err_msg' = m
    /\ cycle' = Append(cycle, "transcribe_with_whisper")
    /\ pc' = "except_remote"
    /\ UNCHANGED <<env, normalized, sent, whisper_model, api, audio, text, now, last_detect_ts, detected, notified, prev_err, stopped_at, matched>>

\* lines 150-159: fall back to the local model on the listed codes, else continue
ClassifyRemoteError ==
    /\ pc = "except_remote"
    /\ IF IsServiceUnavailable(err_msg)
       THEN /\ pc' = "fallback"
            /\ UNCHANGED <<audio, err_msg, text, now, prev_err>>
       ELSE NextCycle("RemoteSTTError")
    /\ UNCHANGED <<env, normalized, sent, whisper_model, api, last_detect_ts, detected, cycle, notified, stopped_at, matched>>

\* line 153: the fallback call returns
FallbackOk ==
    /\ pc = "fallback"
    /\ \E raw \in RawTranscripts : text' = strip(raw)
    /\ cycle' = Append(cycle, "transcribe_with_faster_whisper")
    /\ pc' = "check_text"
    /\ audio' = <<>>
    /\ err_msg' = <<>>
    /\ whisper_model' = LoadModel(whisper_model)
    /\ UNCHANGED <<env, normalized, sent, api, now, last_detect_ts, detected, notified, prev_err, stopped_at, matched>>

\* lines 154-156: the fallback call raises: printed, continue
FallbackFail ==
    /\ pc = "fallback"
    /\ cycle' = Append(cycle, "transcribe_with_faster_whisper")
    /\ NextCycle("FallbackError")
    /\ \E built \in BOOLEAN :
         whisper_model' = IF built THEN LoadModel(whisper_model) ELSE whisper_model
    /\ UNCHANGED <<env, normalized, sent, api, last_detect_ts, detected, notified, stopped_at, matched>>

\* the test of line 160 left out
CheckTextNoSkip ==
    /\ pc = "check_text"
    /\ pc' = "match"
    /\ UNCHANGED <<env, normalized, sent, whisper_model, api, audio, err_msg, text, now, last_detect_ts, detected, cycle, notified, prev_err, stopped_at, matched>>

\* lines 160-161: if not text: continue
CheckText ==
    /\ pc = "check_text"
    /\ IF text = <<>>
       THEN NextCycle("none")
       ELSE /\ pc' = "match"
            /\ UNCHANGED <<audio, err_msg, text, now, prev_err>>
    /\ UNCHANGED <<env, normalized, sent, whisper_model, api, last_detect_ts, detected, cycle, notified, stopped_at, matched>>

\* line 167: if contains_keyword(text, KEYWORDS), else the cycle is over
Match ==
    /\ pc = "match"
    /\ cycle' = Append(cycle, "contains_keyword")
    /\ IF contains_keyword(text, KEYWORDS)
       THEN /\ pc' = "debounce"
            /\ UNCHANGED <<audio, err_msg, text, now, prev_err>>
       ELSE NextCycle("none")
    /\ UNCHANGED <<env, normalized, sent, whisper_model, api, last_detect_ts, detected, notified, stopped_at, matched>>

\* line 168: now = time.time()
ReadClock ==
    /\ pc = "debounce"
    /\ \E t \in ClockReadings : now' = t
    /\ cycle' = Append(cycle, "time")
    /\ pc' = "cooldown"
    /\ UNCHANGED <<env, normalized, sent, whisper_model, api, audio, err_msg, text, last_detect_ts, detected, notified,
                   prev_err, stopped_at, matched>>

\* the window one second too short
InCooldownShort(t, last) == t - last < COOLDOWN_SECONDS - 1

\* the distance between the two readings, whichever is later
InCooldownAbs(t, last) ==
    (IF t >= last THEN t - last ELSE last - t) < COOLDOWN_SECONDS

\* now - last_detect_ts < COOLDOWN_SECONDS
InCooldown(t, last) == t - last < COOLDOWN_SECONDS

\* the reading recorded also when the detection is debounced
DebounceRecordsAlways ==
    /\ pc = "cooldown"
    /\ last_detect_ts' = now
    /\ IF InCooldown(now, last_detect_ts)
       THEN /\ NextCycle("none")
            /\ UNCHANGED detected
       ELSE /\ detected' = TRUE
            /\ pc' = "notify"
            /\ UNCHANGED <<audio, err_msg, text, now, prev_err>>
    /\ UNCHANGED <<env, normalized, sent, whisper_model, api, cycle, notified, stopped_at, matched>>

\* lines 169-172: debounce (continue), or record the detection
Debounce ==
    /\ pc = "cooldown"
    /\ IF InCooldown(now, last_detect_ts)
       THEN /\ NextCycle("none")
            /\ UNCHANGED <<last_detect_ts, detected>>
       ELSE /\ last_detect_ts' = now
            /\ detected' = TRUE
            /\ pc' = "notify"
            /\ UNCHANGED <<audio, err_msg, text, now, prev_err>>
    /\ UNCHANGED <<env, normalized, sent, whisper_model, api, cycle, notified, stopped_at, matched>>

\* the normalized transcript embedded in place of the raw one
BuildMessageNormalized(t) ==
    IF DEFAULT_MESSAGE = SentinelMessage
    THEN <<"K","e","y","w","o","r","d"," ","d","e","t","e","c","t","e","d",":"," ","'">>
         \o normalize_text(t) \o <<"'">>
    ELSE DEFAULT_MESSAGE

\* line 174: the message of the notification
BuildMessage(t) ==
    IF DEFAULT_MESSAGE = SentinelMessage
    THEN <<"K","e","y","w","o","r","d"," ","d","e","t","e","c","t","e","d",":"," ","'">>
         \o t \o <<"'">>
    ELSE DEFAULT_MESSAGE

\* lines 174-177: send_via_api returns
NotifyOk ==
    /\ pc = "notify"
    /\ cycle' = Append(cycle, "send_via_api")
    /\ notified' = Append(notified, last_detect_ts)
    /\ NextCycle("none")
    /\ sent' = <<[to |-> TO_NUMBER, message |-> BuildMessage(text)]>>
    /\ UNCHANGED <<env, normalized, whisper_model, api, last_detect_ts, detected, stopped_at, matched>>

\* a failed notification that takes the recorded detection back
NotifyFailResets ==
    /\ pc = "notify"
    /\ cycle' = Append(cycle, "send_via_api")
    /\ notified' = Append(notified, last_detect_ts)
    /\ NextCycle("NotifyError")
    /\ sent' = <<[to |-> TO_NUMBER, message |-> <<>>]>>
    /\ last_detect_ts' = 0
    /\ UNCHANGED <<env, normalized, whisper_model, api, detected, stopped_at, matched>>

\* the failed call tried again in the same cycle
NotifyFailRetry ==
    /\ pc = "notify"
    /\ cycle' = Append(cycle, "send_via_api")
    /\ notified' = Append(notified, last_detect_ts)
    /\ sent' = <<[to |-> TO_NUMBER, message |-> BuildMessage(text)]>>
    /\ UNCHANGED <<env, pc, audio, err_msg, text, now, prev_err, normalized, whisper_model, api,
                   last_detect_ts, detected, stopped_at, matched>>

\* lines 176-179: send_via_api raises: printed, the cycle is over
NotifyFail ==
    /\ pc = "notify"
    /\ cycle' = Append(cycle, "send_via_api")
    /\ notified' = Append(notified, last_detect_ts)
    /\ NextCycle("NotifyError")
    /\ sent' = <<[to |-> TO_NUMBER, message |-> BuildMessage(text)]>>
    /\ UNCHANGED <<env, normalized, whisper_model, api, last_detect_ts, detected, stopped_at, matched>>

\* lines 184-186: print the error, time.sleep(1), next iteration
Handler ==
    /\ pc = "handler"
    /\ pc' = "capture"
    /\ audio' = <<>>
    /\ err_msg' = <<>>
    /\ text' = <<>>
    /\ UNCHANGED <<env, normalized, sent, whisper_model, api, now, last_detect_ts, detected, cycle, notified, prev_err, stopped_at, matched>>

\* the interrupt only noted, the cycle going on to its end
InterruptDeferred ==
    /\ pc \in LoopSteps \cup {"start", "handler"}
    /\ stopped_at = "none"
    /\ stopped_at' = pc
    /\ UNCHANGED <<env, normalized, sent, whisper_model, api, pc, audio, err_msg, text, now, last_detect_ts, detected, cycle, notified, prev_err, matched>>

\* KeyboardInterrupt is raised wherever main() is: inside the try block it is
\* caught at line 181 (break); at startup and in the handler of line 184 it
\* leaves main(). Either way nothing more of the cycle runs.
Interrupt ==
    /\ pc \in LoopSteps \cup {"start", "handler"}
    /\ stopped_at' = pc
    /\ pc' = "stopped"
    /\ UNCHANGED <<env, normalized, sent, whisper_model, api, audio, err_msg, text, now, last_detect_ts, detected, cycle, notified, prev_err, matched>>

Next ==
    \/ Startup
    \/ CaptureOk
    \/ CaptureFail
    \/ Gate
    \/ LocalOk
    \/ LocalFail
    \/ RemoteOk
    \/ RemoteFail
    \/ ClassifyRemoteError
    \/ FallbackOk
    \/ FallbackFail
    \/ CheckText
    \/ Match
    \/ ReadClock
    \/ Debounce
    \/ NotifyOk
    \/ NotifyFail
    \/ Handler
    \/ Interrupt

Spec == Init /\ [][Next]_vars

(***************************************************************************)
(* The matcher on its own: contains_keyword(text, KEYWORDS) for every text *)
(* up to MaxTextLen over MatchAlphabet and every KEYWORDS setting below.   *)
(***************************************************************************)
MatchAlphabet == {"a", "B", " ", "!", "_"}

RECURSIVE StringsUpTo(_)
StringsUpTo(n) ==
    IF n = 0 THEN {<<>>}
    ELSE LET shorter == StringsUpTo(n - 1)
         IN  shorter \cup {Append(t, c) : t \in shorter, c \in MatchAlphabet}

NamedTexts ==
    { <<"c","h","i","c","k","e","n","n","u","g","g","e","t">>,
      <<"C","h","i","c","k","e","n"," ","N","U","G","G","E","T","!","!">> }

\* values of the KEYWORDS environment variable
KeywordSettings ==
    { <<>>,                                   \* set to the empty string
      <<" ">>,
      <<",">>,
      <<" ",","," "," ">>,
      <<"a">>,
      <<"B">>,
      <<"a"," ","b">>,
      <<" ","a"," ",",","b","b">>,
      <<"a"," "," ","b">>,
      <<"a","!">>,
      <<"_">>,
      <<" ",",","a"," ","B",","," ">>,
      <<"c","h","i","c","k","e","n"," ","n","u","g","g","e","t">> }

InitMatch ==
    /\ \E k \in KeywordSettings :
         env = [n \in EnvNames |-> IF n = "KEYWORDS" THEN <<k>> ELSE <<>>]
    /\ pc = "matcher"
    /\ audio = <<>>
    /\ err_msg = <<>>
    /\ text \in StringsUpTo(MaxTextLen) \cup NamedTexts
    /\ now = 0
    /\ last_detect_ts = 0
    /\ detected = FALSE
    /\ cycle = <<>>
    /\ notified = <<>>
    /\ prev_err = "none"
    /\ stopped_at = "none"
    /\ matched = FALSE
    /\ normalized = <<>>
    /\ sent = <<>>
    /\ whisper_model = "none"
    /\ api = <<>>

\* line 167: contains_keyword(text, KEYWORDS)
ApplyMatcher ==
    /\ pc = "matcher"
    /\ matched' = contains_keyword(text, KEYWORDS)
    /\ pc' = "matched"
    /\ normalized' = normalize_text(text)
    /\ UNCHANGED <<env, sent, whisper_model, api, audio, err_msg, text, now, last_detect_ts, detected, cycle,
                   notified, prev_err, stopped_at>>

NextMatch == ApplyMatcher

SpecMatch == InitMatch /\ [][NextMatch]_vars

(***************************************************************************)
(* The HTTP API (api.py): one request at a time through get_auth_token and *)
(* send_sms.  An Optional value is a sequence of length 0 or 1.            *)
(***************************************************************************)
ApiEnvNames ==
    {"API_TOKEN", "TWILIO_ACCOUNT_SID", "TWILIO_API_KEY", "TWILIO_API_SECRET",
     "TWILIO_AUTH_TOKEN", "TWILIO_MESSAGING_SERVICE_SID", "TWILIO_FROM_NUMBER"}

\* API_TOKEN unset, empty or one of two tokens; each Twilio setting unset or set
ApiEnvironments ==
    { e \in [ApiEnvNames -> {<<>>, <<<<>>>>, <<<<"s">>>>, <<<<"t">>>>}] :
        \A n \in ApiEnvNames \ {"API_TOKEN"} : e[n] \in {<<>>, <<<<"s">>>>} }

\* what HTTPBearer(auto_error=False) hands over: None, or the scheme as the
\* client wrote it and a non-empty token
Credentials ==
    {<<>>} \cup { <<[scheme |-> sc, credentials |-> tk]>> :
                     sc \in {"Bearer", "bearer"}, tk \in {<<"s">>, <<"t">>} }

\* valid bodies of SendRequest
Payloads == { [to |-> <<"+","1">>, message |-> <<"m">>] }

\* the dependency without the comparison of the token
get_auth_token_no_compare(credentials) ==
    IF Getenv("API_TOKEN", None) = None THEN 503
    ELSE IF credentials = <<>> \/ credentials[1].scheme # "Bearer" THEN 401
    ELSE 0

\* lines 18-27: the status of the HTTPException raised, 0 when it returns
get_auth_token(credentials) ==
    LET expected == Getenv("API_TOKEN", None)
    IN  IF expected = None THEN 503
        ELSE IF credentials = <<>> \/ credentials[1].scheme # "Bearer" THEN 401
        ELSE IF credentials[1].credentials # expected THEN 403
        ELSE 0

\* lines 30-43: the Client built from the settings, or status 500
twilio_client ==
    LET account_sid == Getenv("TWILIO_ACCOUNT_SID", None)
        api_key == Getenv("TWILIO_API_KEY", None)
        api_secret == Getenv("TWILIO_API_SECRET", None)
        auth_token == Getenv("TWILIO_AUTH_TOKEN", None)
    IN  IF account_sid = None THEN [status |-> 500, client |-> <<>>]
        ELSE IF api_key # None /\ api_secret # None
        THEN [status |-> 0, client |-> <<<<api_key, api_secret, account_sid>>>>]
        ELSE IF auth_token # None
        THEN [status |-> 0, client |-> <<<<account_sid, auth_token>>>>]
        ELSE [status |-> 500, client |-> <<>>]

\* lines 56-60: the arguments of messages.create
Kwargs(payload) ==
    LET messaging_service_sid == Getenv("TWILIO_MESSAGING_SERVICE_SID", None)
        from_number == Getenv("TWILIO_FROM_NUMBER", None)
    IN  IF messaging_service_sid # None
        THEN [to |-> payload.to, body |-> payload.message,
              messaging_service_sid |-> messaging_service_sid]
        ELSE [to |-> payload.to, body |-> payload.message, from_ |-> from_number]

InitApi ==
    /\ env \in ApiEnvironments
    /\ pc = "api"
    /\ audio = <<>>
    /\ err_msg = <<>>
    /\ text = <<>>
    /\ now = 0
    /\ last_detect_ts = 0
    /\ detected = FALSE
    /\ cycle = <<>>
    /\ notified = <<>>
    /\ prev_err = "none"
    /\ stopped_at = "none"
    /\ matched = FALSE
    /\ normalized = <<>>
    /\ sent = <<>>
    /\ whisper_model = "none"
    /\ api = [pc |-> "idle", credentials |-> <<>>, payload |-> <<>>, status |-> 0,
              client |-> <<>>, message |-> <<>>]

\* line 46: POST /send arrives with a valid body
Request ==
    /\ pc = "api"
    /\ api.pc \in {"idle", "done"}
    /\ \E c \in Credentials, p \in Payloads :
         api' = [pc |-> "auth", credentials |-> c, payload |-> <<p>>, status |-> 0,
                 client |-> <<>>, message |-> <<>>]
    /\ UNCHANGED <<env, pc, audio, err_msg, text, now, last_detect_ts, detected, cycle,
                   notified, prev_err, stopped_at, matched, normalized, sent, whisper_model>>

\* line 47: Depends(get_auth_token) runs before the body of send_sms
Authenticate ==
    /\ pc = "api"
    /\ api.pc = "auth"
    /\ LET st == get_auth_token(api.credentials)
       IN  api' = [api EXCEPT !.pc = IF st = 0 THEN "send_sms" ELSE "done",
                              !.status = st]
    /\ UNCHANGED <<env, pc, audio, err_msg, text, now, last_detect_ts, detected, cycle,
                   notified, prev_err, stopped_at, matched, normalized, sent, whisper_model>>

\* lines 48-54: a sender is configured and the client is built, or 500
Configure ==
    /\ pc = "api"
    /\ api.pc = "send_sms"
    /\ IF /\ Getenv("TWILIO_MESSAGING_SERVICE_SID", None) = None
          /\ Getenv("TWILIO_FROM_NUMBER", None) = None
       THEN api' = [api EXCEPT !.pc = "done", !.status = 500]
       ELSE IF twilio_client.status # 0
       THEN api' = [api EXCEPT !.pc = "done", !.status = twilio_client.status]
       ELSE api' = [api EXCEPT !.pc = "create", !.client = twilio_client.client]
    /\ UNCHANGED <<env, pc, audio, err_msg, text, now, last_detect_ts, detected, cycle,
                   notified, prev_err, stopped_at, matched, normalized, sent, whisper_model>>

\* lines 63 and 68: messages.create returns, the response carries the sid
CreateOk ==
    /\ pc = "api"
    /\ api.pc = "create"
    /\ api' = [api EXCEPT !.pc = "done", !.status = 200,
                          !.message = <<Kwargs(api.payload[1])>>]
    /\ UNCHANGED <<env, pc, audio, err_msg, text, now, last_detect_ts, detected, cycle,
                   notified, prev_err, stopped_at, matched, normalized, sent, whisper_model>>

\* lines 64-66: messages.create raises: 502
CreateFail ==
    /\ pc = "api"
    /\ api.pc = "create"
    /\ api' = [api EXCEPT !.pc = "done", !.status = 502]
    /\ UNCHANGED <<env, pc, audio, err_msg, text, now, last_detect_ts, detected, cycle,
                   notified, prev_err, stopped_at, matched, normalized, sent, whisper_model>>

NextApi ==
    \/ Request
    \/ Authenticate
    \/ Configure
    \/ CreateOk
    \/ CreateFail

SpecApi == InitApi /\ [][NextApi]_vars

(***************************************************************************)
(* Properties                                                              *)
(***************************************************************************)
Calls(c) == {c[i] : i \in DOMAIN c}

Transcribers == {"transcribe_with_whisper", "transcribe_with_faster_whisper"}

\* the step is one of the loop's own, not the delivery of KeyboardInterrupt
LoopStep == pc' # "stopped"

C1_Spacing ==
    \A i, j \in DOMAIN notified :
        i < j => notified[j] - notified[i] >= COOLDOWN_SECONDS

C1_Step ==
    pc = "cooldown" /\ LoopStep /\ detected =>
        /\ now - last_detect_ts < COOLDOWN_SECONDS =>
              pc' = "capture" /\ notified' = notified
        /\ now - last_detect_ts >= COOLDOWN_SECONDS => pc' = "notify"

\* C1: any two calls of send_via_api in one run are made for detection times
\* at least COOLDOWN_SECONDS apart, whatever keywords matched (there is one
\* last_detect_ts for the process); after an accepted detection a matching
\* cycle inside the window sends nothing and one at or past it goes on to notify.
C1_CooldownBetweenNotifications == [](C1_Spacing) /\ [][C1_Step]_vars

\* two notifications 20 s apart, the second for a different transcript's cycle
C1_Witness ==
    /\ Len(notified) = 2
    /\ notified[2] - notified[1] = 20

\* C2: allow(now) accepts, and records lastDetectionTime = now, exactly when
\* no detection was accepted before or now - lastDetectionTime >= cooldown;
\* in particular the first candidate of a run is accepted for every now.
C2_FirstDetectionAlwaysAccepted ==
    [][pc = "cooldown" /\ LoopStep =>
          /\ (pc' = "notify" /\ last_detect_ts' = now)
                <=> (~detected \/ now - last_detect_ts >= COOLDOWN_SECONDS)
          /\ pc' # "notify" => last_detect_ts' = last_detect_ts]_vars

\* the decision of line 150, read off the message position by position
HasFallbackCode(msg) ==
    \E i \in DOMAIN msg :
        \/ msg[i] \in {"model_not_found", "insufficient_quota"}
        \/ /\ i + 2 <= Len(msg)
           /\ msg[i] = "4" /\ msg[i + 1] = "0" /\ msg[i + 2] \in {"1", "3"}

C3_Classify ==
    pc = "except_remote" /\ LoopStep =>
        IF HasFallbackCode(err_msg)
        THEN pc' = "fallback" /\ cycle' = cycle
        ELSE /\ pc' = "capture"
             /\ cycle' = cycle
             /\ notified' = notified
             /\ last_detect_ts' = last_detect_ts

C3_Fallback ==
    pc = "fallback" /\ LoopStep =>
        /\ cycle' = Append(cycle, "transcribe_with_faster_whisper")
        /\ \/ pc' = "check_text" /\ text' \in {strip(r) : r \in RawTranscripts}
           \/ pc' = "capture" /\ notified' = notified

C3_Inv ==
    /\ pc \in {"except_remote", "fallback"} => ~USE_LOCAL_STT
    /\ pc = "except_remote" =>
          cycle = <<"record_buffer", "_rms", "transcribe_with_whisper">>
    /\ pc = "fallback" =>
          /\ cycle = <<"record_buffer", "_rms", "transcribe_with_whisper">>
          /\ HasFallbackCode(err_msg)
    /\ (~USE_LOCAL_STT /\ "transcribe_with_faster_whisper" \in Calls(cycle)) =>
          SubSeq(cycle, 1, 4) = <<"record_buffer", "_rms", "transcribe_with_whisper",
                                  "transcribe_with_faster_whisper">>

C4_LocalModeIsExclusive ==
    env["USE_LOCAL_STT"] = <<<<"1">>>> =>
        /\ "transcribe_with_whisper" \notin Calls(cycle)
        /\ Cardinality({i \in DOMAIN cycle : cycle[i] \in Transcribers}) <= 1
        /\ pc \notin {"except_remote", "fallback"}
        /\ pc \in {"check_text", "match", "debounce", "cooldown", "notify"} =>
              SubSeq(cycle, 1, 3) = <<"record_buffer", "_rms", "transcribe_with_faster_whisper">>

\* the local transcriber failed in local mode: the cycle is over
C4_Witness ==
    /\ env["USE_LOCAL_STT"] = <<<<"1">>>>
    /\ pc = "handler"
    /\ prev_err = "LocalSTTError"
    /\ cycle = <<"record_buffer", "_rms", "transcribe_with_faster_whisper">>

C5_Inv ==
    /\ pc = "stopped" => stopped_at # "none"
    /\ pc = "handler" => prev_err \in {"DeviceError", "LocalSTTError"}
    /\ pc = "fatal" => cycle = <<>>

C5_Step ==
    /\ pc \in LoopSteps \cup {"handler"} =>
          \/ pc' \in LoopSteps \cup {"handler"}
          \/ pc' = "stopped" /\ stopped_at' = pc
    /\ pc = "handler" /\ LoopStep => pc' = "capture"

\* C5: an exception raised by capture, transcription or the notifier never
\* ends the loop: the loop goes on to the next cycle, which captures, detects
\* and notifies as usual; the loop ends on KeyboardInterrupt only.
C5_ErrorsAreContained == [](C5_Inv) /\ [][C5_Step]_vars

\* the cycle right after a failed capture has reached its notification
C5_Witness ==
    /\ prev_err = "DeviceError"
    /\ pc = "notify"
    /\ cycle = <<"record_buffer", "_rms", "transcribe_with_whisper", "contains_keyword", "time">>

\* C6 as claimed: KeyboardInterrupt ends the loop at an iteration boundary
\* only (before a capture, or between a failed cycle and the next one), never
\* in the middle of a cycle.
C6_InterruptOnlyAtBoundary ==
    pc = "stopped" => stopped_at \in {"start", "capture", "handler"}

C6_Step ==
    /\ pc # "stopped"
    /\ stopped_at' # stopped_at =>
          /\ stopped_at = "none" /\ stopped_at' = pc
          /\ pc' = "stopped"
          /\ cycle' = cycle
          /\ notified' = notified
          /\ last_detect_ts' = last_detect_ts

\* C6 as amended: KeyboardInterrupt ends the loop at the step where it is
\* raised, also in the middle of a cycle: the rest of that cycle does not
\* run (no further call, no change of last_detect_ts, no notification) and
\* nothing runs after the loop has stopped.
C6_InterruptCutsTheCycleShort ==
    [](stopped_at # "none" => pc = "stopped") /\ [][C6_Step]_vars

\* interrupted after the detection was accepted and before send_via_api
C6_Witness ==
    /\ pc = "stopped"
    /\ stopped_at = "notify"
    /\ "send_via_api" \notin Calls(cycle)
    /\ notified = <<>>

C7_Loud(a) == a # <<>> /\ SumSquares(a) >= SILENCE_THRESHOLD * SILENCE_THRESHOLD * Len(a)

C7_Inv ==
    /\ pc \in {"transcribe", "except_remote", "fallback"} => C7_Loud(audio)
    /\ Calls(cycle) \cap Transcribers # {} => SubSeq(cycle, 1, 2) = <<"record_buffer", "_rms">>

C7_Step ==
    /\ pc = "gate" /\ LoopStep =>
          IF C7_Loud(audio)
          THEN pc' = "transcribe"
          ELSE pc' = "capture" /\ Calls(cycle') \cap Transcribers = {}
    /\ pc = "transcribe" /\ LoopStep =>
          \E f \in Transcribers : cycle' = Append(cycle, f)

\* C7: no transcriber is called in a cycle whose buffer has an RMS below
\* SILENCE_THRESHOLD, and one is called in every cycle whose buffer has an
\* RMS at or above it; an RMS equal to the threshold is not silence.
C7_SilenceGate == [](C7_Inv) /\ [][C7_Step]_vars

\* a buffer whose RMS equals the threshold has reached the transcriber
C7_Witness ==
    /\ pc = "except_remote"
    /\ "transcribe_with_whisper" \in Calls(cycle)
    /\ SumSquares(audio) = SILENCE_THRESHOLD * SILENCE_THRESHOLD * Len(audio)

C8_Inv ==
    pc \in {"match", "debounce", "cooldown", "notify"} => text # <<>>

C8_Step ==
    pc = "check_text" /\ text = <<>> /\ LoopStep =>
        /\ pc' = "capture"
        /\ prev_err' = "none"
        /\ cycle' = cycle
        /\ last_detect_ts' = last_detect_ts
        /\ detected' = detected
        /\ notified' = notified

\* C8: a transcription that succeeds with the empty string is no error and
\* ends the cycle there: contains_keyword is not evaluated, last_detect_ts
\* is not touched, send_via_api is not called, the next capture follows.
C8_EmptyTextSkipsTheCycle == [](C8_Inv) /\ [][C8_Step]_vars

\* a cycle that ended right after a successful transcription
C8_Witness ==
    /\ pc = "capture"
    /\ prev_err = "none"
    /\ cycle = <<"record_buffer", "_rms", "transcribe_with_whisper">>

C9_Missing ==
    env["API_TOKEN"] = <<>> \/ env["TO_NUMBER"] = <<>> \/ env["OPENAI_API_KEY"] = <<>>

C9_Inv ==
    /\ C9_Missing =>
          /\ pc \in {"start", "fatal", "stopped"}
          /\ cycle = <<>>
          /\ notified = <<>>
    /\ pc = "fatal" => C9_Missing

\* C9: with API_TOKEN, TO_NUMBER or OPENAI_API_KEY missing main() fails
\* before the loop: nothing is captured, transcribed or sent; once the loop
\* has begun nothing makes main() fail that way.
C9_MissingSettingIsFatalAtStartup ==
    [](C9_Inv) /\ [][pc' = "fatal" => pc = "start"]_vars

\* only the transcription credential is missing, in local mode: still fatal
C9_Witness ==
    /\ pc = "fatal"
    /\ env["OPENAI_API_KEY"] = <<>>
    /\ env["API_TOKEN"] # <<>>
    /\ env["TO_NUMBER"] # <<>>
    /\ env["USE_LOCAL_STT"] = <<<<"1">>>>

\* the configured value of KEYWORDS
C10_Raw == Getenv("KEYWORDS", DefaultKeywordsEnv)

\* r[i..j] is a keyword of r: a piece between two commas without the
\* whitespace around it, and not empty
C10_IsKeywordAt(r, i, j) ==
    /\ i <= j
    /\ ~IsSpace(r[i]) /\ ~IsSpace(r[j])
    /\ \A k \in i..j : r[k] # ","
    /\ \E a \in 0..(i - 1) :
          /\ a = 0 \/ r[a] = ","
          /\ \A k \in (a + 1)..(i - 1) : IsSpace(r[k])
    /\ \E b \in (j + 1)..(Len(r) + 1) :
          /\ b = Len(r) + 1 \/ r[b] = ","
          /\ \A k \in (j + 1)..(b - 1) : IsSpace(r[k])

C10_ChickenNugget == <<"c","h","i","c","k","e","n"," ","n","u","g","g","e","t">>

\* C10: contains_keyword(text, KEYWORDS) is true iff some configured keyword
\* that is not empty once trimmed occurs, case-folded, as a contiguous
\* substring of normalize_text(text).  So nothing matches with no keyword,
\* nothing matches the empty text, a keyword of whitespace alone never
\* matches, "chickennugget" does not match "chicken nugget" and
\* "Chicken NUGGET!!" does.
C10_Matches ==
    pc = "matched" =>
        /\ matched <=>
              \E i, j \in DOMAIN C10_Raw :
                  /\ C10_IsKeywordAt(C10_Raw, i, j)
                  /\ Contains(casefold(SubSeq(C10_Raw, i, j)), normalize_text(text))
        /\ (\A k \in DOMAIN C10_Raw : IsSpace(C10_Raw[k]) \/ C10_Raw[k] = ",") => ~matched
        /\ text = <<>> => ~matched
        /\ C10_Raw = C10_ChickenNugget =>
              /\ text = <<"c","h","i","c","k","e","n","n","u","g","g","e","t">> => ~matched
              /\ text = <<"C","h","i","c","k","e","n"," ","N","U","G","G","E","T","!","!">>
                    => matched

\* "Chicken NUGGET!!" has matched "chicken nugget"
C10_Witness ==
    /\ pc = "matched"
    /\ matched
    /\ C10_Raw = C10_ChickenNugget
    /\ text = <<"C","h","i","c","k","e","n"," ","N","U","G","G","E","T","!","!">>

\* C11: normalize_text case-folds, replaces every character that is neither
\* alphanumeric nor whitespace by a space, collapses the whitespace and
\* trims: its result holds alphanumeric characters and single spaces only
\* (no underscore, no punctuation), with no space at either end.
C11_OnlyAlphanumericsAndSingleSpaces ==
    pc = "matched" =>
        /\ \A i \in DOMAIN normalized :
              normalized[i] \in LowerLetters \cup Digits \cup {" "}
        /\ \A i \in DOMAIN normalized :
              normalized[i] = " " => /\ 1 < i /\ i < Len(normalized)
                                     /\ normalized[i + 1] # " "

\* C12: normalize_text is idempotent.
C12_NormalizeIsIdempotent ==
    pc = "matched" => normalize_text(normalized) = normalized

\* a text that normalize_text changes, to something not empty
C12_Witness ==
    /\ pc = "matched"
    /\ text = <<"C","h","i","c","k","e","n"," ","N","U","G","G","E","T","!","!">>
    /\ normalized = <<"c","h","i","c","k","e","n"," ","n","u","g","g","e","t">>

C13_Prefix ==
    <<"K","e","y","w","o","r","d"," ","d","e","t","e","c","t","e","d",":"," ","'">>

C13_Step ==
    pc = "notify" /\ LoopStep =>
        /\ Len(sent') = 1
        /\ sent'[1].to = env["TO_NUMBER"][1]
        /\ sent'[1].message =
              IF env["MESSAGE"] # <<>> /\ env["MESSAGE"][1] # SentinelMessage
              THEN env["MESSAGE"][1]
              ELSE C13_Prefix \o text \o <<"'">>

\* C13: on an accepted detection send_via_api is called with TO_NUMBER and
\* with the configured message when it differs from the default one, and
\* otherwise with a message that embeds the transcript of the cycle as the
\* transcriber returned it, not normalized.
C13_NotificationMessage ==
    [](sent # <<>> => cycle[Len(cycle)] = "send_via_api") /\ [][C13_Step]_vars

\* the default message: the transcript is in it with its capitals and marks
C13_Witness ==
    /\ sent # <<>>
    /\ env["MESSAGE"] = <<>>
    /\ sent[1].message =
          C13_Prefix
          \o <<"C","h","i","c","k","e","n"," ","N","U","G","G","E","T","!","!">>
          \o <<"'">>

C14_Tail == <<"contains_keyword", "time", "send_via_api">>

C14_Pipelines ==
    { <<"record_buffer", "_rms", "transcribe_with_whisper">> \o C14_Tail,
      <<"record_buffer", "_rms", "transcribe_with_faster_whisper">> \o C14_Tail,
      <<"record_buffer", "_rms", "transcribe_with_whisper",
        "transcribe_with_faster_whisper">> \o C14_Tail }

C14_Inv ==
    /\ "send_via_api" \in Calls(cycle) => cycle \in C14_Pipelines
    /\ pc = "notify" =>
          /\ Append(cycle, "send_via_api") \in C14_Pipelines
          /\ text # <<>>
          /\ contains_keyword(text, KEYWORDS)
          /\ detected /\ last_detect_ts = now
    /\ \A i \in DOMAIN cycle : cycle[i] = "record_buffer" <=> i = 1

\* C14: send_via_api is called only at the end of a whole pipeline of its
\* own cycle, in this order: capture, silence gate, a transcription that
\* gave a text, keyword match, accepted detection; at most once per cycle
\* (a failed call is not repeated); and the next capture starts only after
\* the cycle is over.
C14_NotifyEndsACompletePipeline ==
    [](C14_Inv) /\ [][pc = "notify" /\ LoopStep => pc' = "capture"]_vars

\* a cycle that went through the fallback and whose notification failed
C14_Witness ==
    /\ pc = "capture"
    /\ prev_err = "NotifyError"
    /\ cycle = <<"record_buffer", "_rms", "transcribe_with_whisper",
                 "transcribe_with_faster_whisper", "contains_keyword", "time",
                 "send_via_api">>

\* C15: last_detect_ts changes only by an accepted detection: cycles that
\* fail in capture, are silent, fail in transcription, give no text, match no
\* keyword or are debounced leave it as it is.
C15_OnlyAcceptedDetectionsRecord ==
    [][last_detect_ts' # last_detect_ts =>
          /\ pc = "cooldown" /\ pc' = "notify"
          /\ now - last_detect_ts >= COOLDOWN_SECONDS
          /\ last_detect_ts' = now]_vars

\* a detection at 16 has been accepted and a later candidate was debounced
C15_Witness ==
    /\ pc = "capture"
    /\ cycle # <<>> /\ cycle[Len(cycle)] = "time"
    /\ detected
    /\ last_detect_ts = 16

\* C16: last_detect_ts never decreases in a run, whatever time.time()
\* returns, also when the clock steps backwards between two cycles.
C16_LastDetectionNeverDecreases ==
    [][last_detect_ts' >= last_detect_ts]_vars

\* the clock has stepped back more than a whole cooldown behind the last detection
C16_Witness ==
    /\ pc = "cooldown"
    /\ detected
    /\ now + COOLDOWN_SECONDS <= last_detect_ts

\* C17: the local model is loaded at most once in a run, on the first call
\* of the local transcriber, and reused by the later calls.
C17_ModelLoadedAtMostOnce ==
    whisper_model \in {"none", "one"}

C18_Step ==
    /\ pc = "notify" /\ LoopStep =>
          /\ last_detect_ts' = last_detect_ts
          /\ detected' = detected
          /\ pc' = "capture"
          /\ notified' = Append(notified, last_detect_ts)
    /\ (/\ pc = "cooldown" /\ LoopStep
        /\ notified # <<>>
        /\ now - notified[Len(notified)] < COOLDOWN_SECONDS) =>
          /\ pc' = "capture"
          /\ notified' = notified
          /\ last_detect_ts' = last_detect_ts

\* C18: the detection is recorded before send_via_api is called and the
\* call, failed or not, leaves the record alone: the failure ends the cycle,
\* and a keyword heard less than COOLDOWN_SECONDS after a notification that
\* failed is debounced like one heard after a notification that went through.
C18_CooldownSurvivesAFailedNotification ==
    [](pc = "notify" => detected /\ last_detect_ts = now) /\ [][C18_Step]_vars

\* the cycle after a failed notification, its keyword inside the cooldown
C18_Witness ==
    /\ pc = "cooldown"
    /\ prev_err = "NotifyError"
    /\ now >= last_detect_ts
    /\ now - last_detect_ts < COOLDOWN_SECONDS

C19_Step ==
    /\ env' = env
    /\ (pc = "transcribe" /\ LoopStep /\ env["USE_LOCAL_STT"] = <<>>) =>
          cycle' = <<"record_buffer", "_rms", "transcribe_with_whisper">>
    /\ (LoopStep /\ env["USE_LOCAL_STT"] = <<>>
        /\ "transcribe_with_faster_whisper" \in Calls(cycle')
        /\ "transcribe_with_faster_whisper" \notin Calls(cycle)) =>
          /\ pc = "fallback"
          /\ cycle[Len(cycle)] = "transcribe_with_whisper"

\* C19: outside local mode a fallback lasts one cycle: every non-silent
\* cycle calls the remote transcriber first, whatever happened in the cycles
\* before it, and the local one is called only behind a failure of the
\* remote one in the same cycle.
C19_FallbackIsPerCycle ==
    [][C19_Step]_vars

\* a fallback has run in an earlier cycle; this cycle called the remote transcriber
C19_Witness ==
    /\ env["USE_LOCAL_STT"] = <<>>
    /\ whisper_model # "none"
    /\ pc = "check_text"
    /\ cycle = <<"record_buffer", "_rms", "transcribe_with_whisper">>

C20_Authorized ==
    /\ env["API_TOKEN"] \notin {<<>>, <<<<>>>>}
    /\ api.credentials # <<>>
    /\ api.credentials[1].scheme = "Bearer"
    /\ api.credentials[1].credentials = env["API_TOKEN"][1]

C20_Inv ==
    /\ (api.message # <<>> \/ api.client # <<>>) => C20_Authorized
    /\ api.status \in {401, 403, 503} =>
          api.pc = "done" /\ api.client = <<>> /\ api.message = <<>>

C20_Step ==
    api.pc = "auth" =>
        /\ api'.status =
              IF env["API_TOKEN"] \in {<<>>, <<<<>>>>} THEN 503
              ELSE IF api.credentials = <<>> \/ api.credentials[1].scheme # "Bearer"
              THEN 401
              ELSE IF api.credentials[1].credentials # env["API_TOKEN"][1] THEN 403
              ELSE 0
        /\ api'.client = <<>> /\ api'.message = <<>>
        /\ api'.pc = IF C20_Authorized THEN "send_sms" ELSE "done"

\* C20: POST /send builds a Twilio client and creates a message only for a
\* request whose Bearer token equals a configured API_TOKEN; it answers 503
\* when API_TOKEN is not set, 401 without a Bearer credential and 403 for a
\* different token, and in these three cases nothing of Twilio is touched.
C20_OnlyAuthorizedRequestsSend ==
    [](C20_Inv) /\ [][C20_Step]_vars

\* Twilio is fully configured and the request was refused for its token
C20_Witness ==
    /\ api.pc = "done"
    /\ api.status = 403
    /\ api.credentials = <<[scheme |-> "Bearer", credentials |-> <<"t">>]>>
    /\ env["API_TOKEN"] = <<<<"s">>>>
    /\ \A n \in ApiEnvNames : env[n] # <<>>

====
